---- MODULE Spec2Model ----
(***************************************************************************)
(* Model of flashcards.py: the Input Collector (get_user_settings), the    *)
(* Flashcard Generator (generate_flashcards), the Review Session Runner    *)
(* (run_flashcard_session) and the main flow that chains them.             *)
(*                                                                         *)
(* Text is modelled as sequences of one-character strings, so that         *)
(* str.strip, str.replace, str.lower, int() and json.loads are computed    *)
(* on characters the way the interpreter computes them.                    *)
(* Python values are tagged records [t |-> tag, v |-> payload]:            *)
(*   "arr" list, "obj" dict (sequence of key/value pairs, insertion        *)
(*   order), "str" string, "num" integer literal (its digits), "none"      *)
(*   None, "unset" a name that is not bound yet.                           *)
(***************************************************************************)
EXTENDS Integers, Sequences, FiniteSets, TLC

\* ---------------------------------------------------------------- bounds
MaxTries == 3
MaxCards == 2

\* ------------------------------------------------------- text primitives
Whitespace == {" ", "\n", "\t"}

RECURSIVE LStrip(_)
LStrip(s) ==
    IF s = <<>> THEN s
    ELSE IF Head(s) \in Whitespace THEN LStrip(Tail(s)) ELSE s

RECURSIVE RStrip(_)
RStrip(s) ==
    IF s = <<>> THEN s
    ELSE IF s[Len(s)] \in Whitespace THEN RStrip(SubSeq(s, 1, Len(s) - 1)) ELSE s

\* str.strip()
Strip(s) == RStrip(LStrip(s))

\* str.lower() on the characters the inputs use
LowerChar(c) == IF c = "Q" THEN "q" ELSE IF c = "X" THEN "x" ELSE c

Lower(s) == [i \in 1..Len(s) |-> LowerChar(s[i])]

\* the positions at which pat occurs in s
Occurrences(s, pat) ==
    { i \in 1..(Len(s) - Len(pat) + 1) : SubSeq(s, i, i + Len(pat) - 1) = pat }

\* str.replace(pat, ""): find the leftmost occurrence, drop it, and go on
\* with the text after it (occurrences are non-overlapping, single pass)
RECURSIVE Remove(_, _)
Remove(s, pat) ==
    IF Occurrences(s, pat) = {} THEN s
    ELSE LET i == CHOOSE i \in Occurrences(s, pat) :
                      \A j \in Occurrences(s, pat) : i <= j
         IN  SubSeq(s, 1, i - 1) \o Remove(SubSeq(s, i + Len(pat), Len(s)), pat)

\* ------------------------------------------------------------------ int()
DigitChars == <<"0", "1", "2", "3", "4", "5", "6", "7", "8", "9">>

IsDigit(c) == \E i \in 1..10 : DigitChars[i] = c

DigitVal(c) == (CHOOSE i \in 1..10 : DigitChars[i] = c) - 1

\* digits with single underscores allowed between two digits
RECURSIVE DigitsOk(_, _)
DigitsOk(s, prevDigit) ==
    IF s = <<>> THEN prevDigit
    ELSE IF IsDigit(Head(s)) THEN DigitsOk(Tail(s), TRUE)
    ELSE IF Head(s) = "_" THEN prevDigit /\ Len(s) > 1 /\ IsDigit(s[2])
                               /\ DigitsOk(Tail(s), FALSE)
    ELSE FALSE

RECURSIVE DigitsValue(_, _)
DigitsValue(s, acc) ==
    IF s = <<>> THEN acc
    ELSE IF Head(s) = "_" THEN DigitsValue(Tail(s), acc)
    ELSE DigitsValue(Tail(s), acc * 10 + DigitVal(Head(s)))

\* int(text): [ok |-> FALSE] stands for ValueError
PyInt(s) ==
    LET t    == Strip(s)
        sgn  == IF t # <<>> /\ Head(t) = "-" THEN -1 ELSE 1
        body == IF t # <<>> /\ Head(t) \in {"-", "+"} THEN Tail(t) ELSE t
    IN  IF DigitsOk(body, FALSE)
        THEN [ok |-> TRUE, val |-> sgn * DigitsValue(body, 0)]
        ELSE [ok |-> FALSE, val |-> 0]

\* ------------------------------------------------------------ json.loads
None == [t |-> "none", v |-> <<>>]

Unset == [t |-> "unset", v |-> <<>>]

Fail == [ok |-> FALSE, val |-> None, next |-> 0]

RECURSIVE SkipWs(_, _)
SkipWs(s, i) ==
    IF i <= Len(s) /\ s[i] \in {" ", "\n", "\t", "\r"} THEN SkipWs(s, i + 1) ELSE i

\* index of the closing quote of a string whose content starts at i, 0 if
\* the string is unterminated or holds a control character (strict mode)
RECURSIVE StringEnd(_, _)
StringEnd(s, i) ==
    IF i > Len(s) THEN 0
    ELSE IF s[i] = "\"" THEN i
    ELSE IF s[i] \in {"\n", "\t", "\r"} THEN 0
    ELSE StringEnd(s, i + 1)

RECURSIVE DigitsEnd(_, _)
DigitsEnd(s, i) ==
    IF i <= Len(s) /\ IsDigit(s[i]) THEN DigitsEnd(s, i + 1) ELSE i

\* dict[key] = val: a repeated key keeps its position and takes the new value
DictSet(pairs, key, val) ==
    IF \E n \in 1..Len(pairs) : pairs[n].key = key
    THEN [n \in 1..Len(pairs) |->
            IF pairs[n].key = key THEN [key |-> key, val |-> val] ELSE pairs[n]]
    ELSE Append(pairs, [key |-> key, val |-> val])

RECURSIVE ParseValue(_, _)
RECURSIVE ParseElems(_, _, _)
RECURSIVE ParseMembers(_, _, _)

\* s[i] is the first character of an element; acc holds the elements so far
ParseElems(s, i, acc) ==
    LET e == ParseValue(s, i)
        j == SkipWs(s, e.next)
    IN  IF ~e.ok \/ j > Len(s) THEN Fail
        ELSE IF s[j] = "]"
             THEN [ok |-> TRUE, val |-> [t |-> "arr", v |-> Append(acc, e.val)],
                   next |-> j + 1]
        ELSE IF s[j] = ","
             THEN ParseElems(s, SkipWs(s, j + 1), Append(acc, e.val))
        ELSE Fail

\* s[i] must be the opening quote of a key; acc holds the members so far
ParseMembers(s, i, acc) ==
    IF i > Len(s) \/ s[i] # "\"" THEN Fail
    ELSE
    LET q == StringEnd(s, i + 1)
        c == SkipWs(s, q + 1)
    IN  IF q = 0 \/ c > Len(s) \/ s[c] # ":" THEN Fail
        ELSE
        LET e   == ParseValue(s, SkipWs(s, c + 1))
            j   == SkipWs(s, e.next)
            new == DictSet(acc, SubSeq(s, i + 1, q - 1), e.val)
        IN  IF ~e.ok \/ j > Len(s) THEN Fail
            ELSE IF s[j] = "}"
                 THEN [ok |-> TRUE, val |-> [t |-> "obj", v |-> new], next |-> j + 1]
            ELSE IF s[j] = ","
                 THEN ParseMembers(s, SkipWs(s, j + 1), new)
            ELSE Fail

ParseValue(s, i) ==
    IF i > Len(s) THEN Fail
    ELSE IF s[i] = "\"" THEN
        LET q == StringEnd(s, i + 1)
        IN  IF q = 0 THEN Fail
            ELSE [ok |-> TRUE, val |-> [t |-> "str", v |-> SubSeq(s, i + 1, q - 1)],
                  next |-> q + 1]
    ELSE IF s[i] = "[" THEN
        LET j == SkipWs(s, i + 1)
        IN  IF j <= Len(s) /\ s[j] = "]"
            THEN [ok |-> TRUE, val |-> [t |-> "arr", v |-> <<>>], next |-> j + 1]
            ELSE ParseElems(s, j, <<>>)
    ELSE IF s[i] = "{" THEN
        LET j == SkipWs(s, i + 1)
        IN  IF j <= Len(s) /\ s[j] = "}"
            THEN [ok |-> TRUE, val |-> [t |-> "obj", v |-> <<>>], next |-> j + 1]
            ELSE ParseMembers(s, j, <<>>)
    ELSE IF IsDigit(s[i]) THEN
        LET j == IF s[i] = "0" THEN i + 1 ELSE DigitsEnd(s, i)
        IN  [ok |-> TRUE, val |-> [t |-> "num", v |-> SubSeq(s, i, j - 1)], next |-> j]
    ELSE IF i + 3 <= Len(s) /\ SubSeq(s, i, i + 3) = <<"n", "u", "l", "l">>
        THEN [ok |-> TRUE, val |-> None, next |-> i + 4]
    ELSE Fail

\* json.loads(text): one value, optional whitespace around it, nothing else;
\* ok = FALSE stands for JSONDecodeError
JsonLoads(s) ==
    LET r == ParseValue(s, SkipWs(s, 1))
    IN  IF r.ok /\ SkipWs(s, r.next) = Len(s) + 1
        THEN [ok |-> TRUE, val |-> r.val]
        ELSE [ok |-> FALSE, val |-> None]

\* The backtick character (U+0060); written as a token because the
\* module's string literals cannot hold it.
Backtick == "BACKTICK"

\* the markers of response.text.strip().replace(<fence>json, "").replace(<fence>, "")
FenceJson == <<Backtick, Backtick, Backtick, "j", "s", "o", "n">>

Fence == <<Backtick, Backtick, Backtick>>

CleanResponse(text) == Remove(Remove(Strip(text), FenceJson), Fence)

\* ------------------------------------------------- Python value semantics
\* variants of the truth test: no test at all, and "is not None"
Truthy_Always(val) == TRUE

Truthy_NotNone(val) == val.t # "none"

\* bool(value), as tested by "if card_content:"
Truthy(val) ==
    CASE val.t = "none" -> FALSE
      [] val.t = "num"  -> val.v # <<"0">>
      [] OTHER          -> Len(val.v) > 0

\* iter(value) succeeds on list, dict and str; TypeError otherwise
Iterable(val) == val.t \in {"arr", "obj", "str"}

\* variant of the iteration order: last element first
Items_Reversed(val) ==
    IF val.t = "arr"
    THEN [n \in 1..Len(val.v) |-> val.v[Len(val.v) + 1 - n]]
    ELSE <<>>

\* the items a for loop draws: elements, keys, or characters
Items(val) ==
    CASE val.t = "arr" -> val.v
      [] val.t = "obj" -> [n \in 1..Len(val.v) |-> [t |-> "str", v |-> val.v[n].key]]
      [] val.t = "str" -> [n \in 1..Len(val.v) |-> [t |-> "str", v |-> <<val.v[n]>>]]
      [] OTHER         -> <<>>

FrontKey == <<"f", "r", "o", "n", "t">>

BackKey == <<"b", "a", "c", "k">>

\* card[key]: "ok", or the exception the subscript raises
Subscript(card, key) ==
    IF card.t # "obj" THEN [err |-> "TypeError", val |-> None]
    ELSE IF \E n \in 1..Len(card.v) : card.v[n].key = key
         THEN [err |-> "ok",
               val |-> card.v[CHOOSE n \in 1..Len(card.v) : card.v[n].key = key].val]
         ELSE [err |-> "KeyError", val |-> None]

\* len(value) of a list, dict or str
PyLen(val) == Len(val.v)

\* ------------------------------------------------------------ the inputs
\* what the user may type at the credential prompt
ApiKeys == {"", "key"}

\* what the user may type at the count prompt
CountInputs ==
    { <<>>, <<"a">>, <<"0">>, <<"-", "1">>,
      <<"1">>, <<" ", "+", "2", "_", "0", " ">> }

\* what the user may type at the flip prompt
FlipInputs == { <<>>, <<"x">>, <<"q">>, <<" ", "Q", " ">> }

\* JSON text of a string, a card object and an array
Str(chars) == <<"\"">> \o chars \o <<"\"">>

RenderCard(c) ==
    <<"{">> \o Str(FrontKey) \o <<":">> \o Str(c.front) \o <<",", " ">>
            \o Str(BackKey) \o <<":", " ">> \o Str(c.back) \o <<"}">>

RECURSIVE Join(_)
Join(texts) ==
    IF texts = <<>> THEN <<>>
    ELSE IF Len(texts) = 1 THEN texts[1]
    ELSE texts[1] \o <<",">> \o Join(Tail(texts))

RenderArray(texts) == <<"[">> \o Join(texts) \o <<"]">>

RenderCards(cards) == RenderArray([n \in 1..Len(cards) |-> RenderCard(cards[n])])

\* the cards the service may answer with; the second holds a fence marker
CardA == [front |-> <<"a">>, back |-> <<"b">>]

CardF == [front |-> <<"x">> \o Fence \o <<"y">>, back |-> <<"c">>]

GoodCards == {CardA, CardF}

SeqsUpTo(S, n) == UNION { [1..m -> S] : m \in 0..n }

CardLists == SeqsUpTo(GoodCards, MaxCards)

NoFront == <<"{">> \o Str(BackKey) \o <<":">> \o Str(<<"b">>) \o <<"}">>

NoBack == <<"{">> \o Str(FrontKey) \o <<":">> \o Str(<<"a">>) \o <<"}">>

\* arrays with an element that is not a {front, back} object
BadArrays ==
    { RenderArray(<<NoFront>>), RenderArray(<<NoBack>>),
      RenderArray(<<RenderCard(CardA), NoBack>>),
      RenderArray(<<<<"5">>>>), RenderArray(<<Str(<<"a">>)>>) }

\* JSON values that are not arrays
NonArrays ==
    { RenderCard(CardA), <<"{", "}">>, Str(<<"a">>), Str(<<>>),
      <<"5">>, <<"0">>, <<"n", "u", "l", "l">> }

\* text that is not JSON
Malformed ==
    { <<>>, <<"[">>, <<"[", "]", "x">>, <<"s", "o", "r", "r", "y">>,
      <<"[">> \o RenderCard(CardA) \o <<",", "]">> }

Bodies == { RenderCards(cs) : cs \in CardLists } \cup BadArrays \cup NonArrays
              \cup Malformed

\* how the service may wrap the body
Wraps == {"bare", "json_fence", "plain_fence", "padded_fence"}

Wrap(w, body) ==
    CASE w = "bare"         -> body
      [] w = "json_fence"   -> FenceJson \o <<"\n">> \o body \o <<"\n">> \o Fence
      [] w = "plain_fence"  -> Fence \o body \o Fence
      [] w = "padded_fence" -> <<" ", "\n">> \o FenceJson \o <<"\n">> \o body
                                   \o <<"\n">> \o Fence \o <<"\n", " ">>

Replies == { Wrap(w, b) : w \in Wraps, b \in Bodies }

\* the outcomes of model.generate_content: the call raises (no response is
\* bound), a response whose .text raises, or a response with text
NoResponse == [bound |-> FALSE, readable |-> FALSE, text |-> <<>>]

BlockedResponse == [bound |-> TRUE, readable |-> FALSE, text |-> <<>>]

ServiceOutcomes ==
    {NoResponse, BlockedResponse}
        \cup { [bound |-> TRUE, readable |-> TRUE, text |-> t] : t \in Replies }

\* ------------------------------------------------------------- the state
VARIABLES
    pc,            \* position of the single thread of control
    api_key,       \* credential returned by getpass
    countInputs,   \* the lines read at the count prompt, in order
    num_cards,     \* local num_cards (0 while unbound)
    requests,      \* calls of model.generate_content issued so far
    response,      \* local response of generate_flashcards
    failure,       \* where the exception caught at line 94 was raised
    card_content,  \* value returned by generate_flashcards
    idx,           \* loop index i of run_flashcard_session
    flips,         \* the lines read at the flip prompt, in order
    out,           \* what has been written to the terminal, in order
    fault          \* exception that left the program unhandled

vars == <<pc, api_key, countInputs, num_cards, requests, response, failure,
          card_content, idx, flips, out, fault>>

Evt(kind, n, val) == [k |-> kind, n |-> n, val |-> val]

Say(kind) == Evt(kind, 0, None)

Init ==
    /\ pc = "read_key"
    /\ api_key = ""
    /\ countInputs = <<>>
    /\ num_cards = 0
    /\ requests = 0
    /\ response = NoResponse
    /\ failure = "none"
    /\ card_content = Unset
    /\ idx = 0
    /\ flips = <<>>
    /\ out = <<>>
    /\ fault = "none"

\* --------------------------------------------------- get_user_settings
ReadApiKey ==
    /\ pc = "read_key"
    /\ \E k \in ApiKeys : api_key' = k
    /\ out' = Append(out, Say("setup_banner"))
    /\ pc' = "read_count"
    /\ UNCHANGED <<countInputs, num_cards, requests, response, failure,
                   card_content, idx, flips, fault>>

\* variant of the count test: zero accepted
CountAccepted_NonNegative(n) == n >= 0

\* the test of line 29
CountAccepted(n) == n > 0

\* one turn of the while loop of lines 26-34
ReadCount ==
    /\ pc = "read_count"
    /\ Len(countInputs) < MaxTries
    /\ \E line \in CountInputs :
         LET r == PyInt(line)
         IN  /\ countInputs' = Append(countInputs, line)
             /\ IF ~r.ok
                THEN /\ out' = Append(out, Say("invalid_input"))
                     /\ UNCHANGED <<num_cards, pc>>
                ELSE /\ num_cards' = r.val
                     /\ IF CountAccepted(r.val)
                        THEN pc' = "main_key" /\ UNCHANGED out
                        ELSE out' = Append(out, Say("not_positive")) /\ UNCHANGED pc
    /\ UNCHANGED <<api_key, requests, response, failure, card_content, idx,
                   flips, fault>>

\* ------------------------------------------------------------ main flow
\* variant of the credential test: no test
KeyGiven_Always(k) == TRUE

\* "if api_key:"
KeyGiven(k) == k # ""

MainCheckKey ==
    /\ pc = "main_key"
    /\ pc' = IF KeyGiven(api_key) THEN "gen_setup" ELSE "done"
    /\ UNCHANGED <<api_key, countInputs, num_cards, requests, response, failure,
                   card_content, idx, flips, out, fault>>

\* "if card_content:"
MainCheckContent ==
    /\ pc = "main_content"
    /\ pc' = IF Truthy(card_content) THEN "session" ELSE "done"
    /\ UNCHANGED <<api_key, countInputs, num_cards, requests, response, failure,
                   card_content, idx, flips, out, fault>>

\* -------------------------------------------------- generate_flashcards
\* lines 41-82: client configuration, model object, instruction, notice;
\* any of the library calls may raise inside the try block
GenSetup ==
    /\ pc = "gen_setup"
    /\ \E raised \in BOOLEAN :
         IF raised
         THEN failure' = "setup" /\ pc' = "gen_except" /\ UNCHANGED out
         ELSE /\ out' = Append(out, Evt("generating", num_cards, None))
              /\ pc' = "gen_call"
              /\ UNCHANGED failure
    /\ UNCHANGED <<api_key, countInputs, num_cards, requests, response,
                   card_content, idx, flips, fault>>

\* line 85: the one call of the external service
CallService ==
    /\ pc = "gen_call"
    /\ requests' = requests + 1
    /\ \E r \in ServiceOutcomes :
         IF r.bound
         THEN response' = r /\ pc' = "gen_parse" /\ UNCHANGED failure
         ELSE failure' = "call" /\ pc' = "gen_except" /\ UNCHANGED response
    /\ UNCHANGED <<api_key, countInputs, num_cards, card_content, idx, flips,
                   out, fault>>

\* lines 88-92: read the text, strip the fences, parse, return
ParseReply ==
    /\ pc = "gen_parse"
    /\ IF ~response.readable
       THEN failure' = "text" /\ pc' = "gen_except" /\ UNCHANGED card_content
       ELSE LET r == JsonLoads(CleanResponse(response.text))
            IN  IF r.ok
                THEN card_content' = r.val /\ pc' = "main_content" /\ UNCHANGED failure
                ELSE failure' = "json" /\ pc' = "gen_except" /\ UNCHANGED card_content
    /\ UNCHANGED <<api_key, countInputs, num_cards, requests, response, idx,
                   flips, out, fault>>

\* lines 94-103: the handler; only NameError is caught around response.text
HandleError ==
    /\ pc = "gen_except"
    /\ IF ~response.bound
       THEN /\ out' = out \o <<Say("error_diag"), Say("no_response")>>
            /\ card_content' = None
            /\ pc' = "main_content"
            /\ UNCHANGED fault
       ELSE IF response.readable
       THEN /\ out' = out \o <<Say("error_diag"),
                               Evt("raw_response", 0, [t |-> "str", v |-> response.text])>>
            /\ card_content' = None
            /\ pc' = "main_content"
            /\ UNCHANGED fault
       ELSE /\ out' = Append(out, Say("error_diag"))
            /\ fault' = "ValueError"
            /\ pc' = "crashed"
            /\ UNCHANGED card_content
    /\ UNCHANGED <<api_key, countInputs, num_cards, requests, response, failure,
                   idx, flips>>

\* ------------------------------------------------ run_flashcard_session
\* lines 108-111: the banner, then iter(flashcard_data)
SessionStart ==
    /\ pc = "session"
    /\ out' = Append(out, Say("session_start"))
    /\ IF Iterable(card_content)
       THEN pc' = "loop" /\ idx' = 0 /\ UNCHANGED fault
       ELSE pc' = "crashed" /\ fault' = "TypeError" /\ UNCHANGED idx
    /\ UNCHANGED <<api_key, countInputs, num_cards, requests, response, failure,
                   card_content, flips>>

\* lines 111-116: draw the next card and show its front, or leave the loop
NextCard ==
    /\ pc = "loop"
    /\ IF idx < Len(Items(card_content))
       THEN LET card   == Items(card_content)[idx + 1]
                front  == Subscript(card, FrontKey)
                header == Evt("card_header", idx + 1, None)
            IN  IF front.err = "ok"
                THEN /\ out' = out \o <<header, Evt("front", idx + 1, front.val)>>
                     /\ pc' = "await"
                     /\ UNCHANGED fault
                ELSE /\ out' = Append(out, header)
                     /\ pc' = "crashed"
                     /\ fault' = front.err
       ELSE pc' = "complete" /\ UNCHANGED <<out, fault>>
    /\ UNCHANGED <<api_key, countInputs, num_cards, requests, response, failure,
                   card_content, idx, flips>>

\* variant of the quit test: the line is not trimmed
IsQuit_NoStrip(line) == Lower(line) = <<"q">>

\* the test of line 121
IsQuit(line) == Strip(Lower(line)) = <<"q">>

\* lines 119-130: read one line, then quit or show the back
AwaitFlip ==
    /\ pc = "await"
    /\ \E line \in FlipInputs :
         /\ flips' = Append(flips, line)
         /\ IF IsQuit(line)
            THEN /\ out' = Append(out, Say("quitting"))
                 /\ pc' = "complete"
                 /\ UNCHANGED <<idx, fault>>
            ELSE LET back == Subscript(Items(card_content)[idx + 1], BackKey)
                 IN  IF back.err = "ok"
                     THEN /\ out' = out \o <<Evt("back", idx + 1, back.val),
                                             Say("separator")>>
                          /\ idx' = idx + 1
                          /\ pc' = "loop"
                          /\ UNCHANGED fault
                     ELSE /\ pc' = "crashed"
                          /\ fault' = back.err
                          /\ UNCHANGED <<out, idx>>
    /\ UNCHANGED <<api_key, countInputs, num_cards, requests, response, failure,
                   card_content>>

\* lines 132-133: the statements after the loop
SessionComplete ==
    /\ pc = "complete"
    /\ out' = Append(out, Evt("complete", PyLen(card_content), None))
    /\ pc' = "done"
    /\ UNCHANGED <<api_key, countInputs, num_cards, requests, response, failure,
                   card_content, idx, flips, fault>>

Next ==
    \/ ReadApiKey
    \/ ReadCount
    \/ MainCheckKey
    \/ GenSetup
    \/ CallService
    \/ ParseReply
    \/ HandleError
    \/ MainCheckContent
    \/ SessionStart
    \/ NextCard
    \/ AwaitFlip
    \/ SessionComplete

Spec == Init /\ [][Next]_vars

\* ===================================================== properties checked
Has(kind) == \E n \in 1..Len(out) : out[n].k = kind

IsCardText(e) == e.k \in {"front", "back"}

\* the card texts shown so far, in order
Displayed == SelectSeq(out, IsCardText)

Collecting == pc \in {"read_key", "read_count"}

Finished == pc \in {"done", "crashed"}

IsCard(c) ==
    c.t = "obj" /\ Subscript(c, FrontKey).err = "ok" /\ Subscript(c, BackKey).err = "ok"

IsCardArray(val) == val.t = "arr" /\ \A n \in 1..Len(val.v) : IsCard(val.v[n])

QuitLine(line) == Lower(Strip(line)) = <<"q">>

PositiveInt(line) == PyInt(line).ok /\ PyInt(line).val > 0

\* C1: get_user_settings returns only a positive integer: every count input
\* that is not an integer > 0 is answered by a re-prompt and is never
\* returned, and the returned count is the first input that parses as an
\* integer > 0.
C1_CountIsFirstPositive ==
    LET n        == Len(countInputs)
        rejected == IF pc = "read_count" THEN n ELSE n - 1
        reprompt(e) == e.k \in {"invalid_input", "not_positive"}
    IN  /\ \A i \in 1..n : (i <= rejected) => ~PositiveInt(countInputs[i])
        /\ \A i \in 1..n : (i <= rejected) =>
               SelectSeq(out, reprompt)[i].k =
                   (IF PyInt(countInputs[i]).ok THEN "not_positive" ELSE "invalid_input")
        /\ pc # "read_key" => Len(SelectSeq(out, reprompt)) = rejected
        /\ ~Collecting =>
               /\ n >= 1
               /\ PositiveInt(countInputs[n])
               /\ num_cards = PyInt(countInputs[n]).val

C1_Witness ==
    /\ pc = "main_key"
    /\ Len(countInputs) = 3
    /\ ~PyInt(countInputs[1]).ok
    /\ PyInt(countInputs[2]).ok /\ PyInt(countInputs[2]).val <= 0
    /\ num_cards = 20

\* the card texts a full pass over a list of cards shows
FullPass(cards) ==
    [m \in 1..(2 * Len(cards)) |->
        IF m % 2 = 1
        THEN Evt("front", (m + 1) \div 2, Subscript(cards[(m + 1) \div 2], FrontKey).val)
        ELSE Evt("back", m \div 2, Subscript(cards[m \div 2], BackKey).val)]

\* C2: a session over a list of k cards in which no input is the quit token
\* shows exactly k front/back pairs, in list order, front before back for
\* each card, and the completion message reports k.
C2_FullPassInOrder ==
    ( /\ pc = "done"
      /\ Has("session_start")
      /\ IsCardArray(card_content)
      /\ \A j \in 1..Len(flips) : ~QuitLine(flips[j]) )
    => /\ Displayed = FullPass(card_content.v)
       /\ Len(flips) = Len(card_content.v)
       /\ out[Len(out)] = Evt("complete", Len(card_content.v), None)

C2_Witness ==
    /\ pc = "done"
    /\ IsCardArray(card_content)
    /\ Len(card_content.v) = 2
    /\ card_content.v[1] # card_content.v[2]
    /\ Len(flips) = 2
    /\ \A j \in 1..2 : ~QuitLine(flips[j])
    /\ Has("complete")

\* C3: when the input read for card j, trimmed and lower-cased, is the quit
\* token, the front of card j is the last card text shown: neither the back
\* of card j nor any text of a later card is shown, and no input is read
\* after it.
C3_QuitStopsDisplay ==
    \A j \in 1..Len(flips) :
        QuitLine(flips[j]) =>
            /\ j = Len(flips)
            /\ Len(Displayed) = 2 * j - 1
            /\ Displayed[Len(Displayed)].k = "front"
            /\ Displayed[Len(Displayed)].n = j
            /\ \A m \in 1..Len(out) : IsCardText(out[m]) => out[m].n <= j
            /\ pc \in {"complete", "done"}

C3_Witness ==
    /\ pc = "done"
    /\ Len(flips) = 1
    /\ QuitLine(flips[1])
    /\ IsCardArray(card_content)
    /\ Len(card_content.v) = 2

\* the service answered with text that is not JSON once the fences are removed
ReplyNotJson == response.readable /\ ~JsonLoads(CleanResponse(response.text)).ok

\* the network call was made and raised
CallFailed == requests = 1 /\ ~response.bound

\* C4: when the reply is not valid JSON after fence-stripping, or the
\* network call fails, generate_flashcards returns None and the main flow
\* never enters the review session: no card text is shown in that run.
C4_BadReplySkipsSession ==
    ((ReplyNotJson /\ pc # "gen_parse") \/ CallFailed) =>
        /\ pc \in {"gen_except", "main_content", "done"}
        /\ pc # "gen_except" => (card_content = None /\ Has("error_diag"))
        /\ ~Has("session_start")
        /\ Displayed = <<>>
        /\ fault = "none"

C4_Witness ==
    /\ pc = "done"
    /\ ReplyNotJson
    /\ response.text # <<>>
    /\ card_content = None

\* the Python value of a list of cards
CardValue(c) ==
    [t |-> "obj",
     v |-> << [key |-> FrontKey, val |-> [t |-> "str", v |-> c.front]],
              [key |-> BackKey, val |-> [t |-> "str", v |-> c.back]] >>]

CardsValue(cards) == [t |-> "arr", v |-> [n \in 1..Len(cards) |-> CardValue(cards[n])]]

\* C5: for a reply that is a JSON array of k {front, back} objects, bare or
\* inside a code fence and padded by whitespace, generate_flashcards returns
\* the k objects with the front and back values of the reply, in order, also
\* when a value holds a fence marker.
C5_FencedArrayReturned ==
    (pc = "main_content" /\ response.readable) =>
        \A cards \in CardLists : \A w \in Wraps :
            response.text = Wrap(w, RenderCards(cards)) =>
                card_content = CardsValue(cards)

\* C6 as stated: every run past the Input Collector issues exactly one
\* request, whatever the credential, the empty string included.
C6_ExactlyOneRequest ==
    /\ requests <= 1
    /\ Finished => requests = 1

\* C6 amended: a run past the Input Collector never issues more than one
\* request and never retries; it issues exactly one when the credential is
\* not empty and the client setup before the call does not raise, and none
\* otherwise.
C6_OneRequestWhenKeyGiven ==
    /\ requests <= 1
    /\ requests = 1 => api_key # ""
    /\ Finished => (requests = 1 <=> (api_key # "" /\ failure # "setup"))

C6_Witness ==
    /\ pc = "done"
    /\ api_key # ""
    /\ failure = "call"
    /\ requests = 1

\* C7: a reply that, after fence-stripping, is not a JSON array of objects
\* with the keys front and back takes the parse-failure path: the function
\* returns None, the session is skipped and no unhandled fault is raised.
C7_DeviationIsParseFailure ==
    ( /\ response.readable
      /\ pc # "gen_parse"
      /\ LET r == JsonLoads(CleanResponse(response.text))
         IN  ~(r.ok /\ IsCardArray(r.val)) )
    => /\ fault = "none"
       /\ ~Has("session_start")
       /\ pc \in {"gen_except", "main_content", "done"}
       /\ pc # "gen_except" => card_content = None

\* C8: an exception inside generate_flashcards never reaches the caller: the
\* function returns None, and when the raw response text is unavailable (no
\* response bound, or reading its text fails) the "no response" message is
\* shown.
C8_HandlerNeverPropagates ==
    (failure # "none" /\ pc # "gen_except") =>
        /\ fault = "none"
        /\ card_content = None
        /\ (~response.bound \/ ~response.readable) => Has("no_response")

\* C9: a run that entered Quit never shows the session-complete summary.
C9_QuitNeverCompletes == ~(Has("quitting") /\ Has("complete"))

\* C10: the main flow runs the session if and only if generate_flashcards
\* returned a truthy value; a parsed empty array is skipped like a failure,
\* with neither a completion message nor a diagnostic.
C10_SessionIffTruthy ==
    LET falsy == \/ card_content.t = "none"
                 \/ card_content.t \in {"arr", "obj", "str"} /\ card_content.v = <<>>
                 \/ card_content.t = "num" /\ card_content.v = <<"0">>
        entered == pc = "session" \/ Has("session_start")
    IN  /\ (card_content # Unset /\ pc # "main_content") => (entered <=> ~falsy)
        /\ card_content = [t |-> "arr", v |-> <<>>] =>
               /\ pc \in {"main_content", "done"}
               /\ ~Has("complete")
               /\ ~Has("error_diag")
               /\ out[Len(out)].k = "generating"

C10_Witness ==
    /\ pc = "done"
    /\ card_content = [t |-> "arr", v |-> <<>>]
    /\ requests = 1

====
